---- MODULE Spec2Model ----
(***************************************************************************)
(* Model of src/app.py, a Streamlit page: the script body is re-executed   *)
(* top to bottom on every widget event of a browser session.  One run of   *)
(* the script is a walk of pc through the sections of the file; the only   *)
(* state that survives a run is st.session_state and the widget values.    *)
(***************************************************************************)
EXTENDS Integers, Sequences, FiniteSets, TLC

\* ---------------------------------------------------------------- bounds
MaxTurns == 2       \* chat submissions of one session
MaxChunks == 2      \* chunks one response stream delivers

\* ------------------------------------------------------------ input sets
None == "None"
\* what the user can type into st.chat_input (a falsy "" never passes l.192)
Queries == {"x", "y"}
\* chunk.choices[0].delta.content of the k-th chunk that carries text; a chunk
\* carries either this or None
Fragment(k) == IF k % 2 = 1 THEN "He" ELSE "y"
\* datetime.now().strftime('%Y-%m-%d') on the days the session lives through
Days == <<"2026-11-04", "2026-11-05">>
\* options of the st.selectbox, l.92
RiskOptions == <<"conservative", "balanced", "aggressive">>
\* how the page is deployed: secrets and client library
Deployments == {"ok", "nofile", "nokey", "badclient"}

Greeting == [role |-> "assistant", content |-> "greeting"]

VARIABLES
    deploy,              \* the deployment's secret store / client library state
    today,               \* datetime.now(): the index of the current day in Days
    pc,                  \* position of the script run; "idle" between runs
    event,               \* the widget event the current run serves
    widgets,             \* the widgets the current run has put on the page
    widget_risk,         \* value held by the selectbox widget
    user_risk,           \* script variable user_risk of the current run
    session_state,       \* st.session_state: a record, with or without "messages"
    client,              \* is the script global `client` bound in this run
    user_query,          \* script variable user_query
    system_prompt,       \* script variable system_prompt
    full_response,       \* script variable full_response
    message_placeholder, \* what the st.empty() placeholder displays
    nchunks,             \* chunks the open stream has delivered
    attempts,            \* calls of chat.completions.create this run has made
    notices,             \* error boxes this run has put on the page
    outcome,             \* how the chat turn of this run stands or ended
    turns,               \* submissions so far
    received,            \* history: the non-None deltas the stream delivered, in order
    before,              \* history: st.session_state.messages when the turn began
    last_call,           \* history: the request this run passed to chat.completions.create
    ref_call,            \* history: one earlier request of the session, kept to compare
    cleared              \* history: "clear" was pressed and nothing submitted since

vars == <<deploy, today, pc, event, widgets, widget_risk, user_risk,
          session_state, client, user_query, system_prompt, full_response,
          message_placeholder, nchunks, attempts, notices, outcome, turns, received,
          before, last_call, ref_call, cleared>>

\* --------------------------------------------------------------- helpers
NoEvent == [kind |-> "none", arg |-> None]

\* `"messages" in st.session_state`
HasMessages == "messages" \in DOMAIN session_state

\* st.session_state.messages, the Conversation State ([] while the key is unset)
Messages == IF HasMessages THEN session_state.messages ELSE <<>>

IsPrefix(s, t) == Len(s) <= Len(t) /\ SubSeq(t, 1, Len(s)) = s

NoCall == [day |-> None, risk |-> None, query |-> None, hist |-> -1, request |-> None]

\* l.117-122: the last row of the cached get_market_data() frame; the frame is a
\* fixed function of the seed (l.50), so the two values never change
latest_cn == "df_macro.iloc[-1].cn"
latest_us == "df_macro.iloc[-1].us"

\* get_etf_data(): the four rows, as df_etf.to_string(index=False) lays them out
df_etf ==
    << <<"511260", "R2", "balanced">>, <<"511010", "R2", "conservative">>,
       <<"511090", "R3", "aggressive">>, <<"511220", "R3", "balanced">> >>

\* context_data as it would be if the conversation leaked into the prompt
context_data_with_history(cn, us, risk, etf) ==
    <<"date", Days[today], "cn", cn, "us", us, "risk", risk, "etf", etf,
      "turn", Len(Messages)>>

\* l.200-211: the f-string context_data; its fields in the order of the text.
\* The date is not an argument: the f-string reads datetime.now() itself.
context_data(cn, us, risk, etf) ==
    <<"date", Days[today], "cn", cn, "us", us, "risk", risk, "etf", etf>>

\* l.213-227: the f-string system_prompt: fixed text, then {context_data}
build_system_prompt(cn, us, risk, etf) ==
    <<"role-task-principles">> \o context_data(cn, us, risk, etf)

\* the messages argument as it would be if the transcript were sent along
request_messages_with_history ==
    << [role |-> "system", content |-> system_prompt] >> \o Messages

\* l.237-240: the messages argument of chat.completions.create
request_messages ==
    << [role |-> "system", content |-> system_prompt],
       [role |-> "user", content |-> user_query] >>

\* l.235-243: the whole request
request ==
    [model |-> "deepseek-chat", messages |-> request_messages,
     stream |-> TRUE, temperature |-> "0.7"]

Init ==
    /\ deploy \in Deployments
    /\ today = 1
    /\ pc = "idle"
    /\ event = NoEvent
    /\ widgets = {}
    /\ widget_risk = RiskOptions[2]
    /\ user_risk = None
    /\ session_state = <<>>
    /\ client = FALSE
    /\ user_query = None
    /\ system_prompt = None
    /\ full_response = ""
    /\ message_placeholder = None
    /\ nchunks = 0
    /\ attempts = 0
    /\ notices = <<>>
    /\ outcome = "none"
    /\ turns = 0
    /\ received = <<>>
    /\ before = <<>>
    /\ last_call = NoCall
    /\ ref_call = NoCall
    /\ cleared = FALSE

env == <<deploy, ref_call>>
turnvars == <<user_query, system_prompt, full_response, message_placeholder, nchunks,
              attempts, received, before, last_call>>

\* ------------------------------------------------------- the environment
\* A run can be asked for while no run is active, and also while the script is
\* inside the chat turn: every st.* call of l.230-251 is a point where Streamlit
\* stops the running script for a pending widget event (it raises a
\* BaseException there, which `except Exception` of l.256 does not catch).
Interruptible == {"request", "stream"}
Accepting == pc = "idle" \/ pc \in Interruptible

\* the script starts from its first line: script variables and the page are fresh
FreshRun ==
    /\ widgets' = {}
    /\ notices' = <<>>
    /\ client' = FALSE
    /\ user_risk' = None
    /\ user_query' = None
    /\ system_prompt' = None
    /\ full_response' = ""
    /\ message_placeholder' = None
    /\ nchunks' = 0
    /\ attempts' = 0
    /\ received' = <<>>
    /\ before' = <<>>
    /\ last_call' = NoCall
    /\ outcome' = "none"

\* a widget event asks for a run: between runs the run begins at once; inside
\* the chat turn the running script is stopped where it is, and the run begins next
Fire(kind, arg) ==
    /\ event' = [kind |-> kind, arg |-> arg]
    /\ IF pc = "idle"
       THEN /\ pc' = "secrets"
            /\ FreshRun
       ELSE /\ pc' = "start"
            /\ outcome' = "abandoned"
            /\ UNCHANGED <<widgets, notices, client, user_risk, turnvars>>

\* the browser opens the page: the session's first run
LoadPage ==
    /\ pc = "idle" /\ event = NoEvent
    /\ Fire("load", None)
    /\ UNCHANGED <<env, today, widget_risk, session_state, turns, cleared>>

\* l.90-94: the user picks another option of the selectbox
SelectRisk ==
    /\ Accepting /\ "risk" \in widgets
    /\ \E i \in DOMAIN RiskOptions :
        /\ RiskOptions[i] # widget_risk
        /\ widget_risk' = RiskOptions[i]
        /\ Fire("risk", RiskOptions[i])
    /\ UNCHANGED <<env, today, session_state, turns, cleared>>

\* l.108: the user presses the clear-history button
ClickClear ==
    /\ Accepting /\ "clear" \in widgets
    /\ Fire("clear", None)
    /\ UNCHANGED <<env, today, widget_risk, session_state, turns, cleared>>

\* l.192: the user submits a non-empty text in the chat input
Submit ==
    /\ Accepting /\ "chat" \in widgets
    /\ turns < MaxTurns
    /\ \E q \in Queries : Fire("submit", q)
    /\ turns' = turns + 1
    /\ UNCHANGED <<env, today, widget_risk, session_state, cleared>>

\* the calendar date changes (read by l.202)
Midnight ==
    /\ pc = "idle" /\ today < Len(Days)
    /\ today' = today + 1
    /\ UNCHANGED <<env, pc, event, widgets, widget_risk, user_risk, session_state,
                   client, turnvars, notices, outcome, turns, cleared>>

\* ------------------------------------------------------------ one run
\* the run that follows a stopped run (a widget event, or st.rerun() of l.110)
BeginRun ==
    /\ pc = "start"
    /\ pc' = "secrets"
    /\ FreshRun
    /\ UNCHANGED <<env, today, event, widget_risk, session_state, turns, cleared>>

\* l.21-26: API_KEY = st.secrets[...]; only FileNotFoundError is handled
ReadSecret ==
    /\ pc = "secrets"
    /\ CASE deploy = "nofile" ->      \* st.error; st.stop()
              /\ notices' = Append(notices, "config")
              /\ pc' = "idle"
         [] deploy = "nokey" ->       \* KeyError leaves the script
              /\ notices' = Append(notices, "uncaught")
              /\ pc' = "idle"
         [] OTHER ->
              /\ notices' = notices
              /\ pc' = "client"
    /\ UNCHANGED <<env, today, event, widgets, widget_risk, user_risk, session_state,
                   client, turnvars, outcome, turns, cleared>>

\* l.31-34: client = OpenAI(...); on an exception st.error, and the script goes on
ConstructClient ==
    /\ pc = "client"
    /\ IF deploy = "badclient"
       THEN client' = FALSE /\ notices' = Append(notices, "config")
       ELSE client' = TRUE /\ notices' = notices
    /\ pc' = "sidebar"
    /\ UNCHANGED <<env, today, event, widgets, widget_risk, user_risk, session_state,
                   turnvars, outcome, turns, cleared>>

\* l.86-110: the selectbox, the info box, the clear button
Sidebar ==
    /\ pc = "sidebar"
    /\ user_risk' = widget_risk
    /\ widgets' = widgets \cup {"risk", "clear"}
    /\ IF event.kind = "clear"
       THEN /\ session_state' = [messages |-> <<>>]      \* l.109
            /\ cleared' = TRUE
            /\ event' = [kind |-> "rerun", arg |-> None]  \* l.110 st.rerun()
            /\ pc' = "start"
       ELSE /\ pc' = "dashboard"
            /\ UNCHANGED <<session_state, cleared, event>>
    /\ UNCHANGED <<env, today, widget_risk, client, turnvars, notices, outcome, turns>>

\* l.113-173: title, data load, metrics, chart
Dashboard ==
    /\ pc = "dashboard"
    /\ pc' = "transcript"
    /\ UNCHANGED <<env, today, event, widgets, widget_risk, user_risk, session_state,
                   client, turnvars, notices, outcome, turns, cleared>>

\* the seeding test as `if not st.session_state.get("messages")` would make it
NeedsSeedWhenEmpty == ~HasMessages \/ Messages = <<>>

\* l.181: `if "messages" not in st.session_state`
NeedsSeed == ~HasMessages

\* l.181-189: seed the history when the key is missing, then render it
Transcript ==
    /\ pc = "transcript"
    /\ session_state' = IF NeedsSeed THEN [messages |-> <<Greeting>>]
                        ELSE session_state
    /\ pc' = "input"
    /\ UNCHANGED <<env, today, event, widgets, widget_risk, user_risk, client, turnvars,
                   notices, outcome, turns, cleared>>

\* l.192-227: the chat input; on a submission the user append and the prompt
ChatInput ==
    /\ pc = "input"
    /\ widgets' = widgets \cup {"chat"}
    /\ IF event.kind = "submit"
       THEN /\ user_query' = event.arg
            /\ before' = Messages
            /\ session_state' = [session_state EXCEPT !.messages =
                   Append(@, [role |-> "user", content |-> event.arg])]   \* l.197
            /\ system_prompt' = build_system_prompt(latest_cn, latest_us, user_risk, df_etf)
            /\ cleared' = FALSE
            /\ outcome' = "pending"
            /\ pc' = "request"
       ELSE /\ pc' = "idle"
            /\ UNCHANGED <<user_query, before, session_state, system_prompt, cleared,
                           outcome>>
    /\ UNCHANGED <<env, today, event, widget_risk, user_risk, client, full_response,
                   message_placeholder, nchunks, attempts, received, last_call, notices,
                   turns>>

\* the except branch as it would be with a `raise` after st.error
CaughtReraise ==
    /\ notices' = notices \o <<"chat", "uncaught">>
    /\ outcome' = "crashed"
    /\ pc' = "idle"

\* l.256-257: except Exception: st.error(...); the script ends
Caught ==
    /\ notices' = Append(notices, "chat")
    /\ outcome' = "error"
    /\ pc' = "idle"

\* l.230-243: placeholder, then chat.completions.create(...)
OpenRequest ==
    /\ pc = "request"
    /\ message_placeholder' = ""
    /\ \/ /\ ~client                      \* NameError on `client`
          /\ Caught
          /\ UNCHANGED <<last_call, attempts>>
       \/ /\ client                       \* the request is sent
          /\ last_call' = [day |-> Days[today], risk |-> user_risk,
                           query |-> user_query, hist |-> Len(before),
                           request |-> request]
          /\ attempts' = attempts + 1
          /\ \/ pc' = "stream" /\ UNCHANGED <<notices, outcome>>
             \/ Caught                    \* the call raises
    /\ UNCHANGED <<env, today, event, widgets, widget_risk, user_risk, session_state,
                   client, user_query, system_prompt, full_response, nchunks, received,
                   before, turns, cleared>>

\* the accumulation with its operands swapped
AccumulatePrepend(full, content) == content \o full

\* l.248: full_response += content
Accumulate(full, content) == full \o content

\* the render of l.249 without the cursor mark
CursorMissing(full) == full

\* l.249: the text rendered while the stream is open, with the cursor mark
Cursor(full) == full \o "|"

\* the loop as it would be with the append of l.254 indented into it
NextChunk_AppendInLoop ==
    /\ pc = "stream" /\ nchunks < MaxChunks
    /\ \E d \in {None, Fragment(Len(received) + 1)} :
        IF d # None
        THEN /\ received' = Append(received, d)
             /\ full_response' = full_response \o d
             /\ message_placeholder' = (full_response \o d) \o "|"
             /\ session_state' = [session_state EXCEPT !.messages =
                    Append(@, [role |-> "assistant", content |-> full_response \o d])]
        ELSE UNCHANGED <<received, full_response, message_placeholder, session_state>>
    /\ nchunks' = nchunks + 1
    /\ UNCHANGED <<env, today, pc, event, widgets, widget_risk, user_risk,
                   client, user_query, system_prompt, attempts, before, last_call,
                   notices, outcome, turns, cleared>>

\* l.245-249: one iteration of `for chunk in stream`
NextChunk ==
    /\ pc = "stream" /\ nchunks < MaxChunks
    /\ \E d \in {None, Fragment(Len(received) + 1)} :
        IF d # None
        THEN /\ received' = Append(received, d)
             /\ full_response' = Accumulate(full_response, d)
             /\ message_placeholder' = Cursor(Accumulate(full_response, d))
        ELSE UNCHANGED <<received, full_response, message_placeholder>>
    /\ nchunks' = nchunks + 1
    /\ UNCHANGED <<env, today, pc, event, widgets, widget_risk, user_risk, session_state,
                   client, user_query, system_prompt, attempts, before, last_call,
                   notices, outcome, turns, cleared>>

\* l.251-254: the stream is exhausted: final render and the assistant append
StreamEnd ==
    /\ pc = "stream"
    /\ message_placeholder' = full_response
    /\ session_state' = [session_state EXCEPT !.messages =
           Append(@, [role |-> "assistant", content |-> full_response])]
    /\ outcome' = "replied"
    /\ pc' = "idle"
    /\ UNCHANGED <<env, today, event, widgets, widget_risk, user_risk, client, user_query,
                   system_prompt, full_response, nchunks, attempts, received, before,
                   last_call, notices, turns, cleared>>

\* the except branch as it would be if it saved the partial text (spec.md 4.3)
StreamError_KeepPartial ==
    /\ pc = "stream"
    /\ Caught
    /\ session_state' = [session_state EXCEPT !.messages =
           Append(@, [role |-> "assistant", content |-> full_response])]
    /\ UNCHANGED <<env, today, event, widgets, widget_risk, user_risk,
                   client, turnvars, turns, cleared>>

\* the except branch as it would be if it took the user's message back
StreamError_Rollback ==
    /\ pc = "stream"
    /\ Caught
    /\ session_state' = [session_state EXCEPT !.messages = before]
    /\ UNCHANGED <<env, today, event, widgets, widget_risk, user_risk,
                   client, turnvars, turns, cleared>>

\* l.245, l.256-257: reading the next chunk raises
StreamError ==
    /\ pc = "stream"
    /\ Caught
    /\ UNCHANGED <<env, today, event, widgets, widget_risk, user_risk, session_state,
                   client, turnvars, turns, cleared>>

\* an observer keeps the request in flight, to compare later requests with it
Observe ==
    /\ pc = "stream" /\ ref_call = NoCall
    /\ ref_call' = last_call
    /\ UNCHANGED <<deploy, today, pc, event, widgets, widget_risk, user_risk,
                   session_state, client, turnvars, notices, outcome, turns, cleared>>

Run == \/ BeginRun \/ ReadSecret \/ ConstructClient \/ Sidebar \/ Dashboard
       \/ Transcript \/ ChatInput \/ OpenRequest \/ NextChunk \/ StreamEnd
       \/ StreamError

Next == \/ LoadPage \/ SelectRisk \/ ClickClear \/ Submit \/ Midnight \/ Observe
        \/ BeginRun \/ ReadSecret \/ ConstructClient \/ Sidebar \/ Dashboard
        \/ Transcript \/ ChatInput \/ OpenRequest \/ NextChunk \/ StreamEnd
        \/ StreamError

Spec == Init /\ [][Next]_vars

\* The session without the observer and the calendar, and with the script thread
\* running on once a run has begun: no step of a run waits on anything but the
\* network read, which returns a chunk, the end of the stream, or raises.
NextFair == \/ LoadPage \/ SelectRisk \/ ClickClear \/ Submit
            \/ BeginRun \/ ReadSecret \/ ConstructClient \/ Sidebar \/ Dashboard
            \/ Transcript \/ ChatInput \/ OpenRequest \/ NextChunk \/ StreamEnd
            \/ StreamError

FairSpec == Init /\ [][NextFair]_vars /\ WF_vars(Run)

\* ================================================================ claims
RECURSIVE Concat(_)
Concat(ss) == IF ss = <<>> THEN "" ELSE Head(ss) \o Concat(Tail(ss))

UserMsg(x) == [role |-> "user", content |-> x]
AssistantMsg(t) == [role |-> "assistant", content |-> t]
ChatNotices == Len(SelectSeq(notices, LAMBDA n : n = "chat"))
Uncaught == \E i \in DOMAIN notices : notices[i] = "uncaught"
LastMessage == Messages[Len(Messages)]

\* a run has ended and its chat turn ended the given way
TurnEnded(how) == pc = "idle" /\ outcome = how

\* C1: a submission x whose stream ends without error leaves the history equal
\* to the history before the turn followed by {user, x} and {assistant, T}, T the
\* concatenation in arrival order of the stream's non-None deltas.
C1_FullTurnAppendsUserThenAssistant ==
    TurnEnded("replied") =>
        Messages = before \o <<UserMsg(event.arg), AssistantMsg(Concat(received))>>

\* a second turn whose stream delivered two text deltas has completed
C1_Witness ==
    TurnEnded("replied") /\ Len(received) >= 2 /\ Len(before) >= 3

\* C2: once "clear" has run, the history is the empty list and stays so through
\* every later re-run until the next submission: the greeting is not put back.
C2_ClearedStaysEmpty == cleared => (HasMessages /\ Messages = <<>>)

\* after a clear, a later run (a risk selection) has passed the seeding code
C2_Witness == cleared /\ pc = "idle" /\ event.kind = "risk"

ClearStep == pc = "sidebar" /\ event.kind = "clear"

\* C3: every step other than the clear handler leaves the old history a prefix
\* of the new one.
C3_AppendOnlyExceptClear == [][ClearStep \/ IsPrefix(Messages, Messages')]_vars

\* a second turn failed mid-stream after a text delta had arrived
C3_Witness ==
    TurnEnded("error") /\ Len(before) >= 3 /\ Len(received) >= 1 /\ event.arg = "y"

\* C4: a failed turn, failed at the opening of the request or mid-stream, leaves
\* the history before the submission plus the one user message.
C4_FailureCommitsNoAssistant ==
    TurnEnded("error") => Messages = Append(before, UserMsg(event.arg))

\* a turn failed mid-stream with partial text accumulated
C4_Witness == TurnEnded("error") /\ Len(received) >= 1 /\ full_response # ""

\* C5: a failure of the remote call is caught in the handler: no exception leaves
\* a run that entered the handler, the call is made once and no more, the failed
\* run shows one error notice (the only notice on the page when the request had
\* been sent), and it ends with every control on the page, ready for an action.
C5_FailureCaughtOnceNoRetry ==
    /\ (pc = "idle" /\ user_query # None) => (~Uncaught /\ outcome # "pending")
    /\ attempts <= 1
    /\ TurnEnded("error") =>
          /\ ChatNotices = 1
          /\ attempts = 1 => notices = <<"chat">>
          /\ widgets = {"risk", "clear", "chat"}
    /\ outcome # "error" => ChatNotices = 0

\* the remote call itself raised (the request had been sent) and the run ended
C5_Witness == TurnEnded("error") /\ attempts = 1 /\ nchunks = 0 /\ client

BadCredential == deploy \in {"nofile", "nokey", "badclient"}

\* C6: with a credential that cannot be read, or from which no client can be
\* built, the run shows one error and halts there: no later section runs and no
\* request is made.
C6_BadCredentialHalts ==
    BadCredential =>
        /\ widgets = {}                            \* no control was put on the page
        /\ ~HasMessages                            \* the transcript code did not run
        /\ Len(notices) <= 1
        /\ attempts = 0

Comparable == ref_call # NoCall /\ last_call # NoCall

\* C7: the request holds two messages, the system prompt and the latest
\* submission, and two requests made on the same day with the same risk profile
\* and the same text are equal whatever the histories they were made in.
C7_RequestIgnoresHistory ==
    (last_call # NoCall /\ pc \in {"stream", "idle"}) =>
        /\ Len(last_call.request.messages) = 2
        /\ last_call.request.messages[1].role = "system"
        /\ last_call.request.messages[2] = UserMsg(event.arg)
        /\ (/\ ref_call # NoCall
            /\ ref_call.day = last_call.day
            /\ ref_call.risk = last_call.risk
            /\ ref_call.query = last_call.query)
           => ref_call.request = last_call.request

\* two requests with the same day, risk and text, made in different histories
C7_Witness ==
    /\ Comparable /\ pc = "stream"
    /\ ref_call.day = last_call.day /\ ref_call.risk = last_call.risk
    /\ ref_call.query = last_call.query
    /\ ref_call.hist # last_call.hist

SystemPromptOf(call) == call.request.messages[1].content

\* C8 as stated: for the same yields, risk profile and instrument table the
\* system prompt is the same at every invocation.
C8_PromptPureInFourInputs ==
    (Comparable /\ ref_call.risk = last_call.risk)
        => SystemPromptOf(ref_call) = SystemPromptOf(last_call)

\* C8 amended: for the same yields, risk profile, instrument table and calendar
\* date the system prompt is the same at every invocation.
C8_PromptPureGivenDate ==
    (Comparable /\ ref_call.risk = last_call.risk /\ ref_call.day = last_call.day)
        => SystemPromptOf(ref_call) = SystemPromptOf(last_call)

\* two invocations on one day with one risk profile, for different questions in
\* different histories
C8_Witness ==
    /\ Comparable
    /\ ref_call.risk = last_call.risk /\ ref_call.day = last_call.day
    /\ ref_call.query # last_call.query /\ ref_call.hist # last_call.hist

FailedMidStream == TurnEnded("error") /\ received # <<>>

\* C9 as stated: after a mid-stream failure the partial text is in the history
\* as an assistant message.
C9_PartialKept == FailedMidStream => LastMessage = AssistantMsg(full_response)

\* C9 amended: after a mid-stream failure the partial text is not in the history,
\* whose last entry is the user's message; it is left only on the page, in the
\* placeholder, with the cursor mark.
C9_PartialOnlyOnPage ==
    FailedMidStream =>
        /\ LastMessage = UserMsg(user_query)
        /\ Len(Messages) = Len(before) + 1
        /\ message_placeholder = Concat(received) \o "|"

\* a stream failed after both of its text deltas
C9_Witness == FailedMidStream /\ Len(received) = 2 /\ message_placeholder = "Hey|"

\* a chat turn began in the last run and is no longer in progress
TurnOver == user_query # None /\ pc \notin {"request", "stream"}

\* C10 as stated: every turn whose request was sent ends with the reply appended
\* or with the error notice shown.
C10_TurnEndsRepliedOrError ==
    (TurnOver /\ attempts = 1) => outcome \in {"replied", "error"}

\* C10 amended: while a turn is in progress the only change to the history is the
\* turn's own assistant append, and every started turn ends in exactly one of
\* three ways: the reply appended, the error notice shown, or the run stopped by
\* a user action with neither.
C10_TurnEndsOneOfThreeWays ==
    /\ [](TurnOver =>
            \/ /\ outcome = "replied" /\ ChatNotices = 0
               /\ Messages = before \o <<UserMsg(user_query), AssistantMsg(full_response)>>
            \/ /\ outcome = "error" /\ ChatNotices = 1
               /\ Messages = Append(before, UserMsg(user_query))
            \/ /\ outcome = "abandoned" /\ ChatNotices = 0
               /\ Messages = Append(before, UserMsg(user_query)))
    /\ [][(outcome = "pending" /\ Messages' # Messages) => outcome' = "replied"]_vars
    /\ (outcome = "pending") ~> (outcome \in {"replied", "error", "abandoned"})

\* a turn was stopped mid-stream by the clear button, with text on the page
C10_Witness ==
    /\ outcome = "abandoned" /\ event.kind = "clear" /\ full_response # ""
====
